---------------------------- MODULE Spec2Model ----------------------------
(***************************************************************************)
(* Model of zhdate (src/zhdate/main.py): conversion between the Gregorian  *)
(* calendar and the Chinese lunar calendar for lunar years 1900..2100.     *)
(*                                                                         *)
(* Python values are modelled as records carrying a "kind" field:          *)
(*   datetime  [kind, year, month, day, second]                            *)
(*   timedelta [kind, days, seconds]          (normalised, 0 <= seconds)   *)
(*   ZhDate    [kind, lunar_year, lunar_month, lunar_day, leap_month,      *)
(*              year_code, newyear]                                        *)
(*   int/bool  [kind, v]                                                   *)
(*   a raised exception [kind |-> "TypeError"], [kind |-> "IndexError"]... *)
(* Lists are 1-based TLA+ sequences; every Python index i is i+1 here.     *)
(***************************************************************************)
EXTENDS Integers, Sequences, FiniteSets, TLC

(***************************************************************************)
(* Year table (zhdate/constants.py, imported at main.py line 11).  One     *)
(* entry per lunar year 1900..2100: the packed code of the year, and the   *)
(* Gregorian date of its New Year.  LUNARNEWYEAR holds the year-month-day  *)
(* strings as their decimal numerals; strptime below takes them apart.     *)
(* Each New Year is the previous one plus the lengths the previous code    *)
(* decodes to, starting from 1900-01-31.                                   *)
(***************************************************************************)
LUNARYEARCODE ==
   <<
      19416, 19168, 42352, 21717, 53856, 55632, 91476, 22176, 39632, 21970,
      19168, 42422, 42192, 53840, 119381, 46400, 54944, 44450, 38320, 84343,
      18800, 42160, 46261, 27216, 27968, 109396, 11104, 38256, 21234, 18800,
      25958, 54432, 59984, 92821, 23248, 11104, 100067, 37600, 116951, 51536,
      54432, 120998, 46416, 22176, 107956, 9680, 37584, 53938, 43344, 46423,
      27808, 46416, 86869, 19872, 42416, 83315, 21168, 43432, 59728, 27296,
      44710, 43856, 19296, 43748, 42352, 21088, 62051, 55632, 23383, 22176,
      38608, 19925, 19152, 42192, 54484, 53840, 54616, 46400, 46752, 103846,
      38320, 18864, 43380, 42160, 45690, 27216, 27968, 44870, 43872, 38256,
      19189, 18800, 25776, 29859, 59984, 27480, 23232, 43872, 38613, 37600,
      51552, 55636, 54432, 55888, 30034, 22176, 43959, 9680, 37584, 51893,
      43344, 46240, 47780, 44368, 21977, 19360, 42416, 86390, 21168, 43312,
      31060, 27296, 44368, 23378, 19296, 42726, 42208, 53856, 60005, 54576,
      23200, 30371, 38608, 19195, 19152, 42192, 118966, 53840, 54560, 56645,
      46496, 22224, 21938, 18864, 42359, 42160, 43600, 111189, 27936, 44448,
      84835, 37744, 18936, 18800, 25776, 92326, 59984, 27424, 108228, 43744,
      37600, 53987, 51552, 54615, 54432, 55888, 23893, 22176, 42704, 21972,
      21200, 43448, 43344, 46240, 46758, 44368, 21920, 43940, 42416, 21168,
      45683, 26928, 29495, 27296, 44368, 84821, 19296, 42352, 21732, 53600,
      59752, 54560, 55968, 92838, 22224, 19168, 43476, 41680, 53584, 62034,
      54560
   >>

LUNARNEWYEAR ==
   <<
      19000131, 19010219, 19020208, 19030129, 19040216, 19050204, 19060125, 19070213, 19080202, 19090122,
      19100210, 19110130, 19120218, 19130206, 19140126, 19150214, 19160203, 19170123, 19180211, 19190201,
      19200220, 19210208, 19220128, 19230216, 19240205, 19250124, 19260213, 19270202, 19280123, 19290210,
      19300130, 19310217, 19320206, 19330126, 19340214, 19350204, 19360124, 19370211, 19380131, 19390219,
      19400208, 19410127, 19420215, 19430205, 19440125, 19450213, 19460202, 19470122, 19480210, 19490129,
      19500217, 19510206, 19520127, 19530214, 19540203, 19550124, 19560212, 19570131, 19580218, 19590208,
      19600128, 19610215, 19620205, 19630125, 19640213, 19650202, 19660121, 19670209, 19680130, 19690217,
      19700206, 19710127, 19720215, 19730203, 19740123, 19750211, 19760131, 19770218, 19780207, 19790128,
      19800216, 19810205, 19820125, 19830213, 19840202, 19850220, 19860209, 19870129, 19880217, 19890206,
      19900127, 19910215, 19920204, 19930123, 19940210, 19950131, 19960219, 19970207, 19980128, 19990216,
      20000205, 20010124, 20020212, 20030201, 20040122, 20050209, 20060129, 20070218, 20080207, 20090126,
      20100214, 20110203, 20120123, 20130210, 20140131, 20150219, 20160208, 20170128, 20180216, 20190205,
      20200125, 20210212, 20220201, 20230122, 20240210, 20250129, 20260217, 20270206, 20280126, 20290213,
      20300203, 20310123, 20320211, 20330131, 20340219, 20350208, 20360128, 20370215, 20380204, 20390124,
      20400212, 20410201, 20420122, 20430210, 20440130, 20450217, 20460206, 20470126, 20480214, 20490202,
      20500123, 20510211, 20520201, 20530219, 20540208, 20550128, 20560215, 20570204, 20580124, 20590212,
      20600202, 20610121, 20620209, 20630129, 20640217, 20650205, 20660126, 20670214, 20680203, 20690123,
      20700211, 20710131, 20720219, 20730207, 20740127, 20750215, 20760205, 20770124, 20780212, 20790202,
      20800122, 20810209, 20820129, 20830217, 20840206, 20850126, 20860214, 20870203, 20880124, 20890210,
      20900130, 20910218, 20920207, 20930127, 20940215, 20950205, 20960125, 20970212, 20980201, 20990121,
      21000209
   >>


(***************************************************************************)
(* Python runtime pieces the source relies on.                             *)
(***************************************************************************)
None == [kind |-> "None"]

Exc(name) == [kind |-> name]

IsExc(v) == v.kind \in {"TypeError", "IndexError", "UnboundLocalError"}

PyInt(n) == [kind |-> "int", v |-> n]

PyBool(b) == [kind |-> "bool", v |-> b]

\* list[i] with a 0-based, possibly negative index; IndexError outside
\* -len .. len-1.
PyIndex(list, i) ==
   IF i >= 0 /\ i < Len(list) THEN PyInt(list[i + 1])
   ELSE IF i < 0 /\ i >= -Len(list) THEN PyInt(list[Len(list) + i + 1])
   ELSE Exc("IndexError")

\* list.insert(i, x) for i >= 0: positions past the end append.
ListInsert(list, i, x) ==
   LET k == IF i > Len(list) THEN Len(list) ELSE i
   IN  SubSeq(list, 1, k) \o <<x>> \o SubSeq(list, k + 1, Len(list))

RECURSIVE SumSeq(_)
SumSeq(list) == IF list = <<>> THEN 0 ELSE Head(list) + SumSeq(Tail(list))

\* sum(list[:k]) for k >= 0.
SumPrefix(list, k) ==
   SumSeq(SubSeq(list, 1, IF k > Len(list) THEN Len(list) ELSE k))

\* x >> i and x & 1, x & 0xF on non-negative integers.
Shr(x, i) == x \div (2 ^ i)

And1(x) == x % 2

AndF(x) == x % 16

(***************************************************************************)
(* datetime / timedelta (imported at main.py line 9).  A datetime keeps    *)
(* its calendar fields; differences and day shifts go through the          *)
(* proleptic Gregorian ordinal, as the library does.                       *)
(***************************************************************************)
SecondsPerDay == 24 * 3600

datetime(y, m, d, s) ==
   [kind |-> "datetime", year |-> y, month |-> m, day |-> d, second |-> s]

IsLeapYear(y) == y % 4 = 0 /\ (y % 100 # 0 \/ y % 400 = 0)

DaysInMonth(y, m) ==
   IF m = 2 THEN (IF IsLeapYear(y) THEN 29 ELSE 28)
   ELSE IF m \in {4, 6, 9, 11} THEN 30 ELSE 31

DaysBeforeYear(y) ==
   LET p == y - 1 IN p * 365 + (p \div 4) - (p \div 100) + (p \div 400)

RECURSIVE DaysBeforeMonth(_, _)
DaysBeforeMonth(y, m) ==
   IF m = 1 THEN 0 ELSE DaysBeforeMonth(y, m - 1) + DaysInMonth(y, m - 1)

toordinal(dt) ==
   DaysBeforeYear(dt.year) + DaysBeforeMonth(dt.year, dt.month) + dt.day

RECURSIVE MonthOfYearDay(_, _, _)
\* n = 0-based day of the year y, m = candidate month.
MonthOfYearDay(y, m, n) ==
   IF n < DaysInMonth(y, m) THEN <<m, n + 1>>
   ELSE MonthOfYearDay(y, m + 1, n - DaysInMonth(y, m))

fromordinal(ord, s) ==
   LET n0   == ord - 1
       n400 == n0 \div 146097
       r400 == n0 % 146097
       n100 == r400 \div 36524
       r100 == r400 % 36524
       n4   == r100 \div 1461
       r4   == r100 % 1461
       n1   == r4 \div 365
       r1   == r4 % 365
       y    == n400 * 400 + 1 + n100 * 100 + n4 * 4 + n1
   IN  IF n1 = 4 \/ n100 = 4 THEN datetime(y - 1, 12, 31, s)
       ELSE LET md == MonthOfYearDay(y, 1, r1)
            IN  datetime(y, md[1], md[2], s)

\* datetime.strptime(text, "%Y%m%d"): four digits of year, two of month, two
\* of day, midnight.
strptime(text) ==
   datetime(text \div 10000, (text \div 100) % 100, text % 100, 0)

\* timedelta(days=days, seconds=seconds) for -86400 < seconds < 86400,
\* normalised to 0 <= seconds < 86400.
timedelta(days, seconds) ==
   [kind    |-> "timedelta",
    days    |-> IF seconds < 0 THEN days - 1 ELSE days,
    seconds |-> seconds % SecondsPerDay]

\* a - b for two datetimes.
DatetimeSub(a, b) ==
   timedelta(toordinal(a) - toordinal(b), a.second - b.second)

\* dt + timedelta(days=n).
DatetimeAddDays(dt, n) == fromordinal(toordinal(dt) + n, dt.second)

\* The test written as td.total_seconds() >= 0.
total_seconds_NonNegative(td) == td.days >= 0

\* The test written as td.days > 0.
total_seconds_WholeDays(td) == td.days > 0

\* td.total_seconds() > 0, decided on the normalised fields (the product
\* days * 86400 is never formed).
total_seconds_positive(td) == td.days > 0 \/ (td.days = 0 /\ td.seconds > 0)


(***************************************************************************)
(* class ZhDate                                                            *)
(***************************************************************************)
RECURSIVE decode_loop(_, _, _)
\* for i in range(4, 16): month_days.insert(0, 30 if (year_code >> i) & 1
\* else 29)
decode_loop(year_code, i, month_days) ==
   IF i >= 16 THEN month_days
   ELSE decode_loop(year_code, i + 1,
           ListInsert(month_days, 0,
                      IF And1(Shr(year_code, i)) # 0 THEN 30 ELSE 29))

\* decode with the leap month inserted before, not after, regular month L.
decode_InsertBefore(year_code) ==
   LET month_days == decode_loop(year_code, 4, <<>>)
   IN  IF AndF(year_code) # 0
       THEN ListInsert(month_days, AndF(year_code) - 1,
                       IF Shr(year_code, 16) # 0 THEN 30 ELSE 29)
       ELSE month_days

decode(year_code) ==
   LET month_days == decode_loop(year_code, 4, <<>>)
   IN  IF AndF(year_code) # 0
       THEN ListInsert(month_days, AndF(year_code),
                       IF Shr(year_code, 16) # 0 THEN 30 ELSE 29)
       ELSE month_days

\* validate reading the length bit of the next month (shift one short).
validate_ShiftOneShort(year, month, day, leap) ==
   IF ~(1900 <= year /\ year <= 2100 /\ 1 <= month /\ month <= 12
        /\ 1 <= day /\ day <= 30)
   THEN FALSE
   ELSE LET year_code == LUNARYEARCODE[year - 1900 + 1]
        IN  IF leap
            THEN IF AndF(year_code) # month THEN FALSE
                 ELSE IF day = 30 THEN Shr(year_code, 16) = 1
                 ELSE TRUE
            ELSE IF day <= 29 THEN TRUE
            ELSE And1(Shr(year_code, (12 - month) + 3)) = 1

\* Defined for 1900 <= year <= 2100 (the table lookup follows the range test).
validate(year, month, day, leap) ==
   IF ~(1900 <= year /\ year <= 2100 /\ 1 <= month /\ month <= 12
        /\ 1 <= day /\ day <= 30)
   THEN FALSE
   ELSE LET year_code == LUNARYEARCODE[year - 1900 + 1]
        IN  IF leap
            THEN IF AndF(year_code) # month THEN FALSE
                 ELSE IF day = 30 THEN Shr(year_code, 16) = 1
                 ELSE TRUE
            ELSE IF day <= 29 THEN TRUE
            ELSE And1(Shr(year_code, (12 - month) + 4)) = 1

month_days(year) ==
   LET c == PyIndex(LUNARYEARCODE, year - 1900)
   IN  IF IsExc(c) THEN c ELSE [kind |-> "list", v |-> decode(c.v)]

\* ZhDate(lunar_year, lunar_month, lunar_day, leap_month): the object, or the
\* exception the constructor raises.
ZhDate(lunar_year, lunar_month, lunar_day, leap_month) ==
   LET code == PyIndex(LUNARYEARCODE, lunar_year - 1900)
       ny   == PyIndex(LUNARNEWYEAR, lunar_year - 1900)
   IN  IF IsExc(code) THEN code
       ELSE IF IsExc(ny) THEN ny
       ELSE IF ~validate(lunar_year, lunar_month, lunar_day, leap_month)
            THEN Exc("TypeError")
       ELSE [kind        |-> "ZhDate",
             lunar_year  |-> lunar_year,
             lunar_month |-> lunar_month,
             lunar_day   |-> lunar_day,
             leap_month  |-> leap_month,
             year_code   |-> code.v,
             newyear     |-> strptime(ny.v)]

\* days_passed that never counts the inserted leap month.
days_passed_NoLeapSlot(self) ==
   SumPrefix(decode(self.year_code), self.lunar_month - 1) + self.lunar_day - 1

days_passed(self) ==
   LET md         == decode(self.year_code)
       month_leap == AndF(self.year_code)
       days_passed_month ==
          IF month_leap = 0 \/ self.lunar_month < month_leap
          THEN SumPrefix(md, self.lunar_month - 1)
          ELSE IF ~self.leap_month /\ self.lunar_month = month_leap
          THEN SumPrefix(md, self.lunar_month - 1)
          ELSE SumPrefix(md, self.lunar_month)
   IN  days_passed_month + self.lunar_day - 1

to_datetime(self) == DatetimeAddDays(self.newyear, days_passed(self))

RECURSIVE from_datetime_loop(_, _, _, _)
\* for pos, days in enumerate(accumulate(month_days)): the first pos (0-based)
\* with days_passed + 1 <= days, as <<pos, days>>; <<>> when the loop ends
\* without a break.
from_datetime_loop(md, pos, acc, dp) ==
   IF pos >= Len(md) THEN <<>>
   ELSE LET days == acc + md[pos + 1]
        IN  IF dp + 1 <= days THEN <<pos, days>>
            ELSE from_datetime_loop(md, pos + 1, days, dp)

from_datetime(dt) ==
   LET ny0 == PyIndex(LUNARNEWYEAR, dt.year - 1900)
   IN  IF IsExc(ny0) THEN ny0
       ELSE
       LET lunar_year ==
              IF total_seconds_positive(DatetimeSub(strptime(ny0.v), dt))
              THEN dt.year - 1 ELSE dt.year
           ny1  == PyIndex(LUNARNEWYEAR, lunar_year - 1900)
           code == PyIndex(LUNARYEARCODE, lunar_year - 1900)
       IN  IF IsExc(ny1) THEN ny1
           ELSE IF IsExc(code) THEN code
           ELSE
           LET newyear_dt == strptime(ny1.v)
               dp         == DatetimeSub(dt, newyear_dt).days
               year_code  == code.v
               md         == decode(year_code)
               hit        == from_datetime_loop(md, 0, 0, dp)
           IN  IF hit = <<>> THEN Exc("UnboundLocalError")
               ELSE
               LET month     == hit[1] + 1
                   lunar_day == md[hit[1] + 1] - (hit[2] - dp) + 1
                   lunar_month ==
                      IF AndF(year_code) = 0 \/ month <= AndF(year_code)
                      THEN month ELSE month - 1
                   leap_month ==
                      AndF(year_code) # 0 /\ month = AndF(year_code) + 1
               IN  ZhDate(lunar_year, lunar_month, lunar_day, leap_month)

\* __eq__ that leaves the leap flag out of the comparison.
eq_IgnoreLeap(self, another) ==
   IF another.kind # "ZhDate" THEN Exc("TypeError")
   ELSE PyBool(/\ self.lunar_year = another.lunar_year
               /\ self.lunar_month = another.lunar_month
               /\ self.lunar_day = another.lunar_day)

\* self == another for two ZhDate objects.
eq(self, another) ==
   IF another.kind # "ZhDate" THEN Exc("TypeError")
   ELSE PyBool(/\ self.lunar_year = another.lunar_year
               /\ self.lunar_month = another.lunar_month
               /\ self.lunar_day = another.lunar_day
               /\ self.leap_month = another.leap_month)

add(self, another) ==
   IF another.kind # "int" THEN Exc("TypeError")
   ELSE from_datetime(DatetimeAddDays(to_datetime(self), another.v))

sub(self, another) ==
   IF another.kind = "int"
   THEN from_datetime(DatetimeAddDays(to_datetime(self), -another.v))
   ELSE IF another.kind = "ZhDate"
   THEN PyInt(DatetimeSub(to_datetime(self), to_datetime(another)).days)
   ELSE IF another.kind = "datetime"
   THEN PyInt(DatetimeSub(to_datetime(self), another).days)
   ELSE Exc("TypeError")

today(now) == from_datetime(now)


(***************************************************************************)
(* State.  A caller draws its inputs, then applies the operations of the   *)
(* class one call at a time.                                               *)
(*   pc    - the call the caller made last                                 *)
(*   arg   - the inputs the caller drew                                    *)
(*   self  - the ZhDate the caller holds (or the exception raised when it  *)
(*           was being made)                                               *)
(*   other - the second operand the caller holds                           *)
(*   ret   - the values returned by the calls made so far, in order        *)
(***************************************************************************)
VARIABLES pc, arg, self, other, ret

vars == <<pc, arg, self, other, ret>>

FirstYear == 1900

LastYear == FirstYear + Len(LUNARYEARCODE) - 1

\* The Gregorian date of lunar New Year of a table year.
NewYearOf(year) == strptime(LUNARNEWYEAR[year - FirstYear + 1])

CodeOf(year) == LUNARYEARCODE[year - FirstYear + 1]

(***************************************************************************)
(* Gregorian -> lunar -> Gregorian, over every day of the Gregorian years  *)
(* 1900..2100.                                                             *)
(***************************************************************************)
GregorianDays ==
   { fromordinal(o, 0) :
        o \in toordinal(datetime(FirstYear, 1, 1, 0))
              .. toordinal(datetime(LastYear, 12, 31, 0)) }

InitG ==
   /\ pc = "start"
   /\ arg \in GregorianDays
   /\ self = None
   /\ other = None
   /\ ret = <<>>

\* self = ZhDate.from_datetime(arg)
G_from_datetime ==
   /\ pc = "start"
   /\ self' = from_datetime(arg)
   /\ ret' = Append(ret, self')
   /\ pc' = "from_datetime"
   /\ UNCHANGED <<arg, other>>

\* self.to_datetime()
G_to_datetime ==
   /\ pc = "from_datetime"
   /\ self.kind = "ZhDate"
   /\ ret' = Append(ret, to_datetime(self))
   /\ pc' = "to_datetime"
   /\ UNCHANGED <<arg, self, other>>

NextG == G_from_datetime \/ G_to_datetime

SpecG == InitG /\ [][NextG]_vars

\* C1 as stated: every Gregorian date of the years 1900..2100 converts to a
\* lunar date, and converting that back gives the same calendar date.
C1_AsStated ==
   /\ pc # "start" => self.kind = "ZhDate"
   /\ pc = "to_datetime" => ret[2] = arg

\* C1 amended: every Gregorian date from lunar New Year 1900 (1900-01-31)
\* to 2100-12-31 converts to a lunar date, and converting that back gives
\* the same calendar date; the days of January 1900 before lunar New Year
\* raise the constructor's TypeError.
C1_RoundTrip ==
   IF toordinal(arg) >= toordinal(NewYearOf(FirstYear))
   THEN /\ pc # "start" => self.kind = "ZhDate"
        /\ pc = "to_datetime" => ret[2] = arg
   ELSE pc # "start" => self.kind = "TypeError"

C1_Witness ==
   /\ pc = "to_datetime"
   /\ arg = datetime(2033, 12, 22, 0)
   /\ self.leap_month
   /\ ret[2] = arg

\* C8: lunar New Year of every year Y in 1901..2100 maps to ZhDate(Y, 1, 1,
\* False); the day before maps to year Y-1, last slot of that year's decoded
\* month list, last day of that slot; and every date of the Gregorian years
\* 1901..2100 gets lunar year = Gregorian year - 1 when it lies strictly
\* before that year's lunar New Year, lunar year = Gregorian year otherwise.
C8_YearBoundary ==
   (pc # "start" /\ arg.year > FirstYear) =>
      LET Y    == arg.year
          ny   == toordinal(NewYearOf(Y))
          o    == toordinal(arg)
          prev == decode(CodeOf(Y - 1))
          L    == AndF(CodeOf(Y - 1))
      IN  /\ self.kind = "ZhDate"
          /\ self.lunar_year = (IF o < ny THEN Y - 1 ELSE Y)
          /\ o = ny =>
                /\ self.lunar_month = 1
                /\ self.lunar_day = 1
                /\ self.leap_month = FALSE
          /\ o = ny - 1 =>
                /\ self.lunar_month = 12
                /\ self.leap_month = (L = 12)
                /\ self.lunar_day = prev[Len(prev)]
                /\ self.lunar_day \in {29, 30}

C8_Witness ==
   /\ pc = "from_datetime"
   /\ arg = datetime(2024, 2, 9, 0)
   /\ self.lunar_year = 2023
   /\ self.lunar_month = 12
   /\ self.lunar_day = 30

(***************************************************************************)
(* Construction and validation, over years just outside the table too.     *)
(***************************************************************************)
YearMargin == 1

LunarFields(years, months, days) ==
   [year : years, month : months, day : days, leap : BOOLEAN]

InitC ==
   /\ pc = "start"
   /\ arg \in LunarFields((FirstYear - YearMargin) .. (LastYear + YearMargin),
                          0 .. 13, 0 .. 31)
   /\ self = None
   /\ other = None
   /\ ret = <<>>

\* ZhDate.month_days(arg.year)
C_month_days ==
   /\ pc = "start"
   /\ ret' = Append(ret, month_days(arg.year))
   /\ pc' = "month_days"
   /\ UNCHANGED <<arg, self, other>>

\* ZhDate.validate(arg.year, arg.month, arg.day, arg.leap)
C_validate ==
   /\ pc = "month_days"
   /\ ret' = Append(ret, PyBool(validate(arg.year, arg.month, arg.day, arg.leap)))
   /\ pc' = "validate"
   /\ UNCHANGED <<arg, self, other>>

\* self = ZhDate(arg.year, arg.month, arg.day, arg.leap)
C_init ==
   /\ pc = "validate"
   /\ self' = ZhDate(arg.year, arg.month, arg.day, arg.leap)
   /\ ret' = Append(ret, self')
   /\ pc' = "init"
   /\ UNCHANGED <<arg, other>>

NextC == C_month_days \/ C_validate \/ C_init

SpecC == InitC /\ [][NextC]_vars

\* C3: construction fails with the constructor's TypeError exactly when
\* validate is false, and yields the object when validate is true.
C3_InvalidRaisesTypeError ==
   pc = "init" =>
      /\ ~ret[2].v => self.kind = "TypeError"
      /\ ret[2].v => self.kind = "ZhDate"

\* C4: for table years, months 1..12 and days 1..30, validate accepts a
\* regular date iff the day is within the length decode gives regular month
\* m (index m-1 when L = 0 or m <= L, index m otherwise), and a leap date
\* iff L = m and the day is within the length of the inserted month
\* (index L).
C4_ValidateAgreesWithDecode ==
   (/\ pc \in {"validate", "init"}
    /\ arg.year \in FirstYear .. LastYear
    /\ arg.month \in 1 .. 12
    /\ arg.day \in 1 .. 30) =>
      LET lengths == ret[1].v
          L       == AndF(CodeOf(arg.year))
          m       == arg.month
      IN  IF arg.leap
          THEN ret[2].v <=> (L = m /\ arg.day <= lengths[L + 1])
          ELSE ret[2].v <=>
                  arg.day <= lengths[(IF L = 0 \/ m <= L THEN m - 1 ELSE m) + 1]

C4_Witness ==
   /\ pc = "validate"
   /\ arg = [year |-> 2023, month |-> 2, day |-> 30, leap |-> TRUE]
   /\ ret[1].v[3] = 29
   /\ ret[2].v = FALSE

(***************************************************************************)
(* Lunar -> Gregorian -> lunar, over every lunar date validate accepts.    *)
(***************************************************************************)
ValidFields(years, months, days) ==
   { f \in LunarFields(years, months, days) :
        validate(f.year, f.month, f.day, f.leap) }

InitL ==
   /\ pc = "start"
   /\ arg \in ValidFields(FirstYear .. LastYear, 1 .. 12, 1 .. 30)
   /\ self = None
   /\ other = None
   /\ ret = <<>>

\* self = ZhDate(arg.year, arg.month, arg.day, arg.leap)
L_init ==
   /\ pc = "start"
   /\ self' = ZhDate(arg.year, arg.month, arg.day, arg.leap)
   /\ ret' = Append(ret, self')
   /\ pc' = "init"
   /\ UNCHANGED <<arg, other>>

\* self.to_datetime()
L_to_datetime ==
   /\ pc = "init"
   /\ self.kind = "ZhDate"
   /\ ret' = Append(ret, to_datetime(self))
   /\ pc' = "to_datetime"
   /\ UNCHANGED <<arg, self, other>>

\* other = ZhDate.from_datetime(self.to_datetime())
L_from_datetime ==
   /\ pc = "to_datetime"
   /\ other' = from_datetime(ret[2])
   /\ ret' = Append(ret, other')
   /\ pc' = "from_datetime"
   /\ UNCHANGED <<arg, self>>

\* other == self
L_eq ==
   /\ pc = "from_datetime"
   /\ other.kind = "ZhDate"
   /\ ret' = Append(ret, eq(other, self))
   /\ pc' = "eq"
   /\ UNCHANGED <<arg, self, other>>

NextL == L_init \/ L_to_datetime \/ L_from_datetime \/ L_eq

SpecL == InitL /\ [][NextL]_vars

\* C2: for every (y, m, d, leap) validate accepts, from_datetime of the
\* date's to_datetime succeeds and equals the date on all four fields.
C2_LunarRoundTrip ==
   /\ pc = "from_datetime" => other.kind = "ZhDate"
   /\ pc = "eq" => ret[4] = PyBool(TRUE)

(***************************************************************************)
(* Arithmetic: d + n, d - n, d - other.                                    *)
(***************************************************************************)
MaxN == 2

LunarDays == {1, 29, 30}

Seconds == {0, 1, 12 * 3600, SecondsPerDay - 1}

Fields(f) == [kind |-> "fields", year |-> f.year, month |-> f.month,
              day |-> f.day, leap |-> f.leap]

Construct(f) == ZhDate(f.year, f.month, f.day, f.leap)

\* The operands tried against the lunar date f: a few day counts, the lunar
\* dates of the same and the next month and year (and of the last year),
\* and datetimes within MaxN days, at several times of day.
Operands(f) ==
   { PyInt(n) : n \in -MaxN .. MaxN }
   \cup { Fields(g) :
            g \in ValidFields({f.year,
                               IF f.year < LastYear THEN f.year + 1 ELSE f.year,
                               LastYear},
                              {f.month, (f.month % 12) + 1}, LunarDays) }
   \cup { datetime(x.year, x.month, x.day, s) :
            x \in { DatetimeAddDays(to_datetime(Construct(f)), k) :
                       k \in -MaxN .. MaxN },
            s \in Seconds }

InitA ==
   /\ pc = "start"
   /\ \E f \in ValidFields(FirstYear .. LastYear, 1 .. 12, LunarDays) :
         \E o \in Operands(f) : arg = [self |-> f, other |-> o]
   /\ self = None
   /\ other = None
   /\ ret = <<>>

\* self = ZhDate(...); other = the operand (built when it is a lunar date)
A_init ==
   /\ pc = "start"
   /\ self' = Construct(arg.self)
   /\ other' = IF arg.other.kind = "fields" THEN Construct(arg.other)
               ELSE arg.other
   /\ pc' = "init"
   /\ UNCHANGED <<arg, ret>>

\* self + other
A_add ==
   /\ pc = "init"
   /\ other.kind = "int"
   /\ ret' = Append(ret, add(self, other))
   /\ pc' = "add"
   /\ UNCHANGED <<arg, self, other>>

\* (self + other) - other
A_sub_int ==
   /\ pc = "add"
   /\ ret[1].kind = "ZhDate"
   /\ ret' = Append(ret, sub(ret[1], other))
   /\ pc' = "sub_int"
   /\ UNCHANGED <<arg, self, other>>

\* self - other, other a ZhDate or a datetime
A_sub ==
   /\ pc = "init"
   /\ other.kind \in {"ZhDate", "datetime"}
   /\ ret' = Append(ret, sub(self, other))
   /\ pc' = "sub"
   /\ UNCHANGED <<arg, self, other>>

\* other - self, other a ZhDate
A_rsub ==
   /\ pc = "sub"
   /\ other.kind = "ZhDate"
   /\ ret' = Append(ret, sub(other, self))
   /\ pc' = "rsub"
   /\ UNCHANGED <<arg, self, other>>

\* self == other
A_eq ==
   /\ pc = "rsub"
   /\ ret' = Append(ret, eq(self, other))
   /\ pc' = "eq"
   /\ UNCHANGED <<arg, self, other>>

NextA == A_init \/ A_add \/ A_sub_int \/ A_sub \/ A_rsub \/ A_eq

SpecA == InitA /\ [][NextA]_vars

\* The first and the last Gregorian day that carry a lunar date validate
\* accepts: lunar New Year 1900 and the last day of lunar year 2100.
FirstLunarDay == toordinal(NewYearOf(FirstYear))

LastLunarDay ==
   toordinal(NewYearOf(LastYear)) + SumSeq(decode(CodeOf(LastYear))) - 1

\* C5: (d + n) - n succeeds and equals d on all four fields, for any valid
\* d and any integer n.  Stated here only for the n that keep d + n on a day
\* that carries a valid lunar date, so that a violation is never a sum that
\* has no lunar date to return.
C5_AddSubInverse ==
   (/\ pc \in {"add", "sub_int"}
    /\ toordinal(to_datetime(self)) + other.v >= FirstLunarDay
    /\ toordinal(to_datetime(self)) + other.v <= LastLunarDay) =>
      /\ ret[1].kind = "ZhDate"
      /\ pc = "sub_int" => ret[2] = self

\* C6: a - x is the number of calendar days from x's Gregorian date to a's,
\* for x a lunar date or a datetime at any time of day.
C6_DayDifference ==
   pc = "sub" =>
      LET x == IF other.kind = "ZhDate" THEN to_datetime(other) ELSE other
      IN  ret[1] = PyInt(toordinal(to_datetime(self)) - toordinal(x))

\* C7: a - b = -(b - a), and a - b = 0 iff a == b, for valid lunar dates.
C7_Antisymmetric ==
   /\ pc \in {"rsub", "eq"} => ret[1].v = -ret[2].v
   /\ pc = "eq" => (ret[1].v = 0 <=> ret[3].v)

C7_Witness ==
   /\ pc = "eq"
   /\ self.lunar_year = 2023 /\ self.lunar_month = 2 /\ self.lunar_day = 1
   /\ ~self.leap_month
   /\ other.lunar_year = 2023 /\ other.lunar_month = 2 /\ other.lunar_day = 1
   /\ other.leap_month
   /\ ret = <<PyInt(-30), PyInt(30), PyBool(FALSE)>>

(***************************************************************************)
(* decode, over every 17-bit code.                                         *)
(***************************************************************************)
CodeBits == 17

InitD ==
   /\ pc = "start"
   /\ arg \in 0 .. (2 ^ CodeBits - 1)
   /\ self = None
   /\ other = None
   /\ ret = <<>>

\* ZhDate.decode(arg)
D_decode ==
   /\ pc = "start"
   /\ ret' = Append(ret, [kind |-> "list", v |-> decode(arg)])
   /\ pc' = "decode"
   /\ UNCHANGED <<arg, self, other>>

NextD == D_decode

SpecD == InitD /\ [][NextD]_vars

Bit(c, i) == And1(Shr(c, i)) = 1

\* What C9 says of the list decode(c) gives, with the inserted entry at
\* 0-based index at.
DecodeShape(c, list, at) ==
   LET L == AndF(c)
   IN  /\ \A i \in 1 .. Len(list) : list[i] \in {29, 30}
       /\ Len(list) = (IF L # 0 THEN 13 ELSE 12)
       /\ \A m \in 1 .. 12 :
             LET i == IF L = 0 \/ m <= at THEN m - 1 ELSE m
             IN  list[i + 1] = 30 <=> Bit(c, 16 - m)
       /\ L # 0 =>
             /\ at + 1 <= Len(list)
             /\ list[at + 1] = 30 <=> Bit(c, 16)

\* C9 as stated: for every code below 2^17 the inserted entry is at index L.
C9_AsStated == pc = "decode" => DecodeShape(arg, ret[1].v, AndF(arg))

\* C9 amended: for every code below 2^17 the inserted entry is at index L
\* when L <= 12 and at index 12 (the end of the list) when L is 13..15; the
\* rest as stated.
C9_DecodeShape ==
   pc = "decode" =>
      DecodeShape(arg, ret[1].v, IF AndF(arg) > 12 THEN 12 ELSE AndF(arg))

C9_Witness ==
   /\ pc = "decode"
   /\ arg = 91476
   /\ ret[1].v = <<29, 30, 30, 29, 30, 29, 30, 29, 30, 29, 30, 29, 30>>

(***************************************************************************)
(* Two moments of one day, around every lunar New Year.                    *)
(***************************************************************************)
Window == 2

InitT ==
   /\ pc = "start"
   /\ arg \in { [date |-> DatetimeAddDays(NewYearOf(y), k), t1 |-> s1, t2 |-> s2] :
                   y \in FirstYear .. LastYear, k \in -Window .. Window,
                   s1 \in Seconds, s2 \in Seconds }
   /\ self = None
   /\ other = None
   /\ ret = <<>>

At(date, s) == datetime(date.year, date.month, date.day, s)

\* self = ZhDate.from_datetime(dt1)
T_from_datetime ==
   /\ pc = "start"
   /\ self' = from_datetime(At(arg.date, arg.t1))
   /\ ret' = Append(ret, self')
   /\ pc' = "from_datetime"
   /\ UNCHANGED <<arg, other>>

\* other = ZhDate.today(), the clock reading dt2
T_today ==
   /\ pc = "from_datetime"
   /\ other' = today(At(arg.date, arg.t2))
   /\ ret' = Append(ret, other')
   /\ pc' = "today"
   /\ UNCHANGED <<arg, self>>

\* self == other
T_eq ==
   /\ pc = "today"
   /\ self.kind = "ZhDate"
   /\ other.kind = "ZhDate"
   /\ ret' = Append(ret, eq(self, other))
   /\ pc' = "eq"
   /\ UNCHANGED <<arg, self, other>>

NextT == T_from_datetime \/ T_today \/ T_eq

SpecT == InitT /\ [][NextT]_vars

\* C10: two datetimes on one Gregorian date of the supported range (lunar
\* New Year 1900 onwards) give equal lunar dates, whatever their times of
\* day; so does today() read at two moments of one day.
C10_TimeOfDayIrrelevant ==
   toordinal(arg.date) >= toordinal(NewYearOf(FirstYear)) =>
      /\ pc = "from_datetime" => self.kind = "ZhDate"
      /\ pc = "today" => other.kind = "ZhDate" /\ other = self
      /\ pc = "eq" => ret[3] = PyBool(TRUE)

C10_Witness ==
   /\ pc = "eq"
   /\ arg = [date |-> datetime(2024, 2, 9, 0), t1 |-> SecondsPerDay - 1, t2 |-> 0]
   /\ self.lunar_year = 2023
   /\ ret[3] = PyBool(TRUE)

=============================================================================
